---- MODULE Spec2Model ----
(***************************************************************************)
(* Template drift detection and reconciliation engine of spectrena         *)
(* (src/src/spectrena/update.py): file classification, the hash ledger,    *)
(* plan building and plan application.                                     *)
(*                                                                         *)
(* A path is the sequence of the tokens of its text: the names between the *)
(* separators and the separators themselves, so that a glob wildcard can   *)
(* run across "/" exactly as fnmatch lets it.  A file's content is a tuple *)
(* whose first element names what the bytes are: <<"raw", n>> for opaque   *)
(* bytes, <<"json", m>> for a JSON object holding the mapping m,           *)
(* <<"md", s>> for a reconciliation document with the sections s, and      *)
(* <<"none">> where there is no file.                                      *)
(***************************************************************************)
EXTENDS Integers, Sequences, FiniteSets, TLC

VARIABLES
    fs,            \* the project tree: path -> content
    tpl,           \* the incoming template tree: path -> content
    plan,          \* UpdatePlan.files of the run
    pc,            \* where the run stands
    run,           \* the number of the run
    edits,         \* how many changes the user has made
    applies,       \* how often the plan of the run has been applied
    scan,          \* the order the directory scan of the run took
    planFs,        \* the project tree when the plan was built
    drift,         \* the modified flag create_update_plan gave each file
    pre,           \* the project tree when apply_update_plan was last called
    wrotePending,  \* whether that call went through write_pending_updates
    endFs,         \* the project tree after the first apply of the run
    prev,          \* what the run before this one did
    probe,         \* one call of categorize_file: arguments and result
    ru,            \* run_update: its arguments, its locals and its output
    net,           \* what the release index and the download answer
    ex             \* the files the extraction of the archive has written

vars == <<fs, tpl, plan, pc, run, edits, applies, scan, planFs, drift, pre,
          wrotePending, endFs, prev, probe, ru, net, ex>>

(***************************************************************************)
(* Bounds of the model.                                                    *)
(***************************************************************************)
MaxContent == 4
HashSpace == 3
MaxRuns == 2
MaxEdits == 1
MaxApply == 2
MaxEntries == 3

(***************************************************************************)
(* Paths.                                                                  *)
(***************************************************************************)
RECURSIVE Join(_)
Join(segs) ==
    IF Len(segs) <= 1 THEN segs
    ELSE <<Head(segs), "/">> \o Join(Tail(segs))

cfg == Join(<<".spectrena", "config.yml">>)
cmd == Join(<<".claude", "commands", "foo.md">>)
bar == Join(<<".spectrena", "templates", "bar.md">>)
baz == Join(<<".spectrena", "templates", "baz.md">>)
script == Join(<<".spectrena", "scripts", "bash", "run.sh">>)
readme == Join(<<"README.md">>)
notes == Join(<<"notes.txt">>)

HashFile == Join(<<".spectrena", ".template-hashes.json">>)
PendingFile == Join(<<".spectrena", "pending-updates.md">>)
VersionFile == Join(<<".spectrena", ".version">>)

\* The lineage store is a directory; the model keeps one file of it.
lineage_db_path == Join(<<".spectrena", "lineage.db">>)
lineage_db == lineage_db_path \o <<"/", "manifest">>

\* The files of the model, in the order an ascending directory scan meets
\* them.
Universe ==
    <<cmd, HashFile, VersionFile, cfg, PendingFile, script, bar, baz,
      readme, notes, lineage_db>>

Paths == {Universe[i] : i \in 1..Len(Universe)}

Rank(p) == CHOOSE i \in 1..Len(Universe) : Universe[i] = p

(***************************************************************************)
(* UpdateAction and the pattern tables.                                    *)
(***************************************************************************)
PRESERVE == "preserve"
UPDATE == "update"
MERGE == "merge"
ADD == "add"
DEPRECATED == "deprecated"

UpdateAction == {PRESERVE, UPDATE, MERGE, ADD, DEPRECATED}

PRESERVE_PATTERNS ==
    << Join(<<".spectrena", "memory", "*">>),
       Join(<<".spectrena", "config.yml">>),
       Join(<<".spectrena", "backlog.md">>),
       Join(<<".spectrena", "lineage.db", "*">>),
       Join(<<".spectrena", "discovery.md">>),
       Join(<<"specs", "*">>) >>

UPDATE_PATTERNS ==
    << Join(<<".spectrena", "scripts", "**">>),
       Join(<<".claude", "commands", "*">>),
       Join(<<".cursor", "commands", "*">>),
       Join(<<".github", "copilot-instructions.md">>),
       Join(<<".windsurf", "commands", "*">>),
       Join(<<".cline", "commands", "*">>),
       Join(<<".roo-cline", "commands", "*">>) >>

MERGE_PATTERNS ==
    << Join(<<".spectrena", "templates", "*">>) >>

\* fnmatch: a run of "*" matches any run of tokens, separators included;
\* every other token matches itself only.
IsStar(tok) == tok \in {"*", "**"}

RECURSIVE fnmatch(_, _)
fnmatch(name, pat) ==
    IF pat = <<>> THEN name = <<>>
    ELSE IF IsStar(Head(pat))
         THEN \/ fnmatch(name, Tail(pat))
              \/ (name # <<>> /\ fnmatch(Tail(name), pat))
         ELSE /\ name # <<>>
              /\ Head(name) = Head(pat)
              /\ fnmatch(Tail(name), Tail(pat))

matches_pattern(path, patterns) ==
    \E i \in 1..Len(patterns) : fnmatch(path, patterns[i])

categorize_file_ignores_modified(rel_path, exists, modified) ==
    IF matches_pattern(rel_path, PRESERVE_PATTERNS)
    THEN <<PRESERVE, "User content - never modified">>
    ELSE IF matches_pattern(rel_path, UPDATE_PATTERNS)
    THEN IF exists THEN <<UPDATE, "Framework file - will be updated">>
                   ELSE <<ADD, "New framework file">>
    ELSE IF matches_pattern(rel_path, MERGE_PATTERNS)
    THEN IF ~exists THEN <<ADD, "New template">>
         ELSE <<UPDATE, "Template unchanged - safe to update">>
    ELSE IF exists THEN <<PRESERVE, "Unknown file - preserving">>
                   ELSE <<ADD, "New file">>

categorize_file_overwrites_unknown(rel_path, exists, modified) ==
    IF matches_pattern(rel_path, PRESERVE_PATTERNS)
    THEN <<PRESERVE, "User content - never modified">>
    ELSE IF matches_pattern(rel_path, UPDATE_PATTERNS)
    THEN IF exists THEN <<UPDATE, "Framework file - will be updated">>
                   ELSE <<ADD, "New framework file">>
    ELSE IF matches_pattern(rel_path, MERGE_PATTERNS)
    THEN IF ~exists THEN <<ADD, "New template">>
         ELSE IF modified
              THEN <<MERGE, "Template modified - needs review">>
              ELSE <<UPDATE, "Template unchanged - safe to update">>
    ELSE IF exists THEN <<UPDATE, "Unknown file - preserving">>
                   ELSE <<ADD, "New file">>

categorize_file_deprecates(rel_path, exists, modified) ==
    IF matches_pattern(rel_path, PRESERVE_PATTERNS)
    THEN <<PRESERVE, "User content - never modified">>
    ELSE IF matches_pattern(rel_path, UPDATE_PATTERNS)
    THEN IF exists THEN <<UPDATE, "Framework file - will be updated">>
                   ELSE <<ADD, "New framework file">>
    ELSE IF matches_pattern(rel_path, MERGE_PATTERNS)
    THEN IF ~exists THEN <<ADD, "New template">>
         ELSE IF modified
              THEN <<MERGE, "Template modified - needs review">>
              ELSE <<UPDATE, "Template unchanged - safe to update">>
    ELSE IF exists THEN <<DEPRECATED, "Unknown file - preserving">>
                   ELSE <<ADD, "New file">>

categorize_file(rel_path, exists, modified) ==
    IF matches_pattern(rel_path, PRESERVE_PATTERNS)
    THEN <<PRESERVE, "User content - never modified">>
    ELSE IF matches_pattern(rel_path, UPDATE_PATTERNS)
    THEN IF exists THEN <<UPDATE, "Framework file - will be updated">>
                   ELSE <<ADD, "New framework file">>
    ELSE IF matches_pattern(rel_path, MERGE_PATTERNS)
    THEN IF ~exists THEN <<ADD, "New template">>
         ELSE IF modified
              THEN <<MERGE, "Template modified - needs review">>
              ELSE <<UPDATE, "Template unchanged - safe to update">>
    ELSE IF exists THEN <<PRESERVE, "Unknown file - preserving">>
                   ELSE <<ADD, "New file">>

(***************************************************************************)
(* File contents and digests.                                              *)
(***************************************************************************)
NoFile == <<"none">>
Raw(n) == <<"raw", n>>
Json(m) == <<"json", m>>
Md(sections) == <<"md", sections>>

None == -1
NoDiff == <<"None">>
EmptyDiff == <<"diff">>
DiffNotAvailable == <<"(diff not available)">>

Range(s) == {s[i] : i \in 1..Len(s)}

Exists(tree, p) == tree[p] # NoFile

\* sha256(bytes).hexdigest()[:12]: a short digest, so distinct contents can
\* share one.  A structured file is digested through its size.
Digest(c) ==
    IF c[1] = "raw" THEN c[2] % HashSpace
    ELSE IF c[1] = "json" THEN Cardinality(DOMAIN c[2]) % HashSpace
    ELSE Len(c[2]) % HashSpace

file_hash(tree, p) == IF ~Exists(tree, p) THEN None ELSE Digest(tree[p])

\* json.loads of the ledger file succeeds on a JSON object only.
LedgerReadable(tree) == Exists(tree, HashFile) => tree[HashFile][1] = "json"

load_original_hashes(tree) ==
    IF Exists(tree, HashFile) THEN tree[HashFile][2] ELSE <<>>

Get(m, p) == IF p \in DOMAIN m THEN m[p] ELSE None

generate_diff(old, new) ==
    IF old = new THEN EmptyDiff ELSE <<"diff", old, new>>

FileUpdate(path, action, reason, old_hash, new_hash, diff) ==
    [path |-> path, action |-> action, reason |-> reason,
     old_hash |-> old_hash, new_hash |-> new_hash, diff |-> diff]

(***************************************************************************)
(* Plan building.                                                          *)
(***************************************************************************)
\* The directories above a file, outermost first.
AncestorSeq(p) ==
    SelectSeq([i \in 1..Len(p) |-> IF p[i] = "/" THEN SubSeq(p, 1, i - 1)
                                                  ELSE <<>>],
              LAMBDA d : d # <<>>)

is_dir(tree, e) ==
    \E p \in DOMAIN tree : Exists(tree, p) /\ e \in Range(AncestorSeq(p))

\* The order in which the file system hands out directory entries is not
\* fixed: the scan runs through the files upwards or downwards.
ScanOrders == {"asc", "desc"}

FilesInOrder(tree, ord) ==
    LET n == Len(Universe)
        all == [i \in 1..n |-> IF ord = "asc" THEN Universe[i]
                                                ELSE Universe[n + 1 - i]]
    IN  SelectSeq(all, LAMBDA p : Exists(tree, p))

RECURSIVE Walk(_, _)
Walk(files, seen) ==
    IF files = <<>> THEN <<>>
    ELSE LET p == Head(files)
             ds == SelectSeq(AncestorSeq(p), LAMBDA d : d \notin seen)
         IN  ds \o <<p>> \o Walk(Tail(files), seen \cup Range(ds))

rglob_top_level(tree, ord) ==
    SelectSeq(Walk(FilesInOrder(tree, ord), {}), LAMBDA e : Len(e) = 1)

\* new_template_path.rglob("*"): every directory and every file below the
\* root, each once.
rglob(tree, ord) == Walk(FilesInOrder(tree, ord), {})

\* modified = exists and old_hash != original_hashes.get(rel_path)
IsModified_needs_entry(f, rel_path) ==
    LET old_hash == file_hash(f, rel_path)
        original_hash == Get(load_original_hashes(f), rel_path)
    IN  Exists(f, rel_path) /\ original_hash # None /\ old_hash # original_hash

IsModified_unless_forced(f, rel_path) ==
    LET old_hash == file_hash(f, rel_path)
        original_hash == Get(load_original_hashes(f), rel_path)
    IN  Exists(f, rel_path) /\ old_hash # original_hash /\ ~ru.force

IsModified(f, rel_path) ==
    LET old_hash == file_hash(f, rel_path)
        original_hash == Get(load_original_hashes(f), rel_path)
    IN  Exists(f, rel_path) /\ old_hash # original_hash

PlanEntry_diff_when_exists(f, tree, rel_path) ==
    LET exists == Exists(f, rel_path)
        old_hash == file_hash(f, rel_path)
        new_hash == file_hash(tree, rel_path)
        modified == IsModified(f, rel_path)
        cat == categorize_file(rel_path, exists, modified)
    IN  FileUpdate(rel_path, cat[1], cat[2], old_hash, new_hash,
                   IF exists
                   THEN generate_diff(f[rel_path], tree[rel_path])
                   ELSE NoDiff)

\* The body of the loop of create_update_plan for one file.
PlanEntry(f, tree, rel_path) ==
    LET exists == Exists(f, rel_path)
        old_hash == file_hash(f, rel_path)
        new_hash == file_hash(tree, rel_path)
        modified == IsModified(f, rel_path)
        cat == categorize_file(rel_path, exists, modified)
    IN  FileUpdate(rel_path, cat[1], cat[2], old_hash, new_hash,
                   IF cat[1] = MERGE /\ exists
                   THEN generate_diff(f[rel_path], tree[rel_path])
                   ELSE NoDiff)

RECURSIVE PlanLoop(_, _, _)
PlanLoop(f, tree, entries) ==
    IF entries = <<>> THEN <<>>
    ELSE IF is_dir(tree, Head(entries))
         THEN PlanLoop(f, tree, Tail(entries))
         ELSE <<PlanEntry(f, tree, Head(entries))>>
              \o PlanLoop(f, tree, Tail(entries))

create_update_plan(f, tree, ord) == PlanLoop(f, tree, rglob(tree, ord))

\* The derived counts of UpdatePlan.
CountOf(pl, action) ==
    Cardinality({i \in 1..Len(pl) : pl[i].action = action})

preserve_count(pl) == CountOf(pl, PRESERVE)
update_count(pl) == CountOf(pl, UPDATE)
merge_count(pl) == CountOf(pl, MERGE)
add_count(pl) == CountOf(pl, ADD)

\* The modified flags of one pass of create_update_plan.
DriftOf(f, pl) ==
    [p \in Paths |-> (\E i \in 1..Len(pl) : pl[i].path = p) /\ IsModified(f, p)]

(***************************************************************************)
(* Plan application.                                                       *)
(***************************************************************************)
Copies_merge_too(e) == e.action \in {UPDATE, ADD, MERGE}

\* The branches of apply_update_plan that copy.
Copies(e) == e.action \in {UPDATE, ADD}

Records_merge_too(e) == e.action \in {UPDATE, ADD, MERGE}

Records_preserve_too(e) == e.action \in {UPDATE, ADD, PRESERVE}

\* The branches of save_original_hashes that record a digest.
Records(e) == e.action \in {UPDATE, ADD}

copy2_keep_existing(f, tree, p) ==
    IF Exists(f, p) THEN f ELSE [f EXCEPT ![p] = tree[p]]

\* shutil.copy2(src, dst) after dst.parent.mkdir(parents=True).
copy2(f, tree, p) == [f EXCEPT ![p] = tree[p]]

\* The loop of apply_update_plan over the first n entries.
ApplyEntries_goes_on(pl, f, tree, n) ==
    [p \in Paths |->
        IF \E i \in 1..Len(pl) : Copies(pl[i]) /\ pl[i].path = p
        THEN tree[p] ELSE f[p]]

RECURSIVE ApplyEntries(_, _, _, _)
ApplyEntries(pl, f, tree, n) ==
    IF n = 0 THEN f
    ELSE LET g == ApplyEntries(pl, f, tree, n - 1)
         IN  IF Copies(pl[n]) THEN copy2(g, tree, pl[n].path) ELSE g

pending_merges(pl) == SelectSeq(pl, LAMBDA e : e.action = MERGE)

Section(update, tree) ==
    [path |-> update.path,
     old_hash |-> update.old_hash,
     new_hash |-> update.new_hash,
     diff |-> IF update.diff \in {NoDiff, EmptyDiff} THEN DiffNotAvailable
              ELSE update.diff,
     content |-> tree[update.path]]

write_pending_updates_appends(f, pending, tree) ==
    [f EXCEPT ![PendingFile] =
        Md((IF f[PendingFile][1] = "md" THEN f[PendingFile][2] ELSE <<>>)
           \o [i \in 1..Len(pending) |-> Section(pending[i], tree)])]

write_pending_updates(f, pending, tree) ==
    [f EXCEPT ![PendingFile] =
        Md([i \in 1..Len(pending) |-> Section(pending[i], tree)])]

save_original_hashes_merging(f, pl) ==
    LET old == IF Exists(f, HashFile) /\ f[HashFile][1] = "json"
               THEN f[HashFile][2] ELSE <<>>
        keys == {pl[i].path : i \in {j \in 1..Len(pl) : Records(pl[j])}}
    IN  [f EXCEPT ![HashFile] =
            Json([p \in keys \cup DOMAIN old |->
                     IF p \in keys
                     THEN (CHOOSE e \in Range(pl) : e.path = p).new_hash
                     ELSE old[p]])]

save_original_hashes_with_local(f, pl) ==
    LET kept == {i \in 1..Len(pl) : pl[i].action \in {UPDATE, ADD, MERGE}}
        keys == {pl[i].path : i \in kept}
        hashes == [p \in keys |->
                      LET last == CHOOSE i \in kept :
                                     /\ pl[i].path = p
                                     /\ \A j \in kept : pl[j].path = p => j <= i
                      IN  IF pl[last].action = MERGE THEN pl[last].old_hash
                          ELSE pl[last].new_hash]
    IN  [f EXCEPT ![HashFile] = Json(hashes)]

save_original_hashes(f, pl) ==
    LET kept == {i \in 1..Len(pl) : Records(pl[i])}
        keys == {pl[i].path : i \in kept}
        hashes == [p \in keys |->
                      LET last == CHOOSE i \in kept :
                                     /\ pl[i].path = p
                                     /\ \A j \in kept : pl[j].path = p => j <= i
                      IN  pl[last].new_hash]
    IN  [f EXCEPT ![HashFile] = Json(hashes)]

WritesPending_always(pl) == TRUE

\* if pending_merges:
WritesPending(pl) == pending_merges(pl) # <<>>

apply_update_plan(pl, f, tree) ==
    LET copied == ApplyEntries(pl, f, tree, Len(pl))
        reviewed == IF WritesPending(pl)
                    THEN write_pending_updates(copied, pending_merges(pl), tree)
                    ELSE copied
    IN  save_original_hashes(reviewed, pl)

(***************************************************************************)
(* Archive extraction (download_template).  An entry name is the token     *)
(* sequence of its text, as a path is.  A place of the file system is the  *)
(* sequence of the directory names from the root down to the file.         *)
(***************************************************************************)
\* The directory download_template extracts into: <tmp>/<temp_dir>/template.
DestPath == <<"tmp", "tmpdir", "template">>

HasSep(name) == \E i \in 1..Len(name) : name[i] = "/"

\* name.split('/')[0]
FirstPart(name) == IF name[1] = "/" THEN "" ELSE name[1]

\* member.endswith('/')
IsDirEntry(name) == Len(name) > 0 /\ name[Len(name)] = "/"

\* The first segments of the names that have more than one segment.
top_dirs(namelist) ==
    {FirstPart(namelist[i]) : i \in {j \in 1..Len(namelist) :
                                        HasSep(namelist[j])}}

\* strip_prefix: the one top-level directory and its separator, or "".
strip_prefix(namelist) ==
    LET tops == top_dirs(namelist)
    IN  IF Cardinality(tops) = 1
        THEN LET top == CHOOSE t \in tops : TRUE
             IN  IF top = "" THEN <<"/">> ELSE <<top, "/">>
        ELSE <<>>

\* member.startswith(prefix)
StartsWith(name, prefix) ==
    /\ Len(prefix) <= Len(name)
    /\ SubSeq(name, 1, Len(prefix)) = prefix

relative_path(member, prefix) ==
    IF prefix # <<>> /\ StartsWith(member, prefix)
    THEN SubSeq(member, Len(prefix) + 1, Len(member))
    ELSE member

\* The place a sequence of segments leads to from the place `at`: ".."
\* goes one directory up and stays at the root, "." stays.
RECURSIVE Descend(_, _)
Descend(at, segs) ==
    IF segs = <<>> THEN at
    ELSE LET s == Head(segs)
             next == IF s = ".."
                     THEN (IF at = <<>> THEN at
                           ELSE SubSeq(at, 1, Len(at) - 1))
                     ELSE IF s = "." THEN at
                     ELSE Append(at, s)
         IN  Descend(next, Tail(segs))

Segments(name) == SelectSeq(name, LAMBDA t : t # "/")

\* target = dest_path / relative_path, as open(target, 'wb') resolves it:
\* an absolute relative_path replaces dest_path altogether.
Target(dest, rel) ==
    IF rel[1] = "/" THEN Descend(<<>>, Segments(rel))
    ELSE Descend(dest, Segments(rel))

\* zf.open(member): the data of the last entry of that name.
zf_open(archive, member) ==
    LET last == CHOOSE i \in 1..Len(archive) :
                   /\ archive[i].name = member
                   /\ \A j \in 1..Len(archive) :
                         archive[j].name = member => j <= i
    IN  archive[last].data

namelist(archive) == [i \in 1..Len(archive) |-> archive[i].name]

\* The writes of the extraction loop over the first n entries, in order.
RECURSIVE ExtractLoop(_, _, _)
ExtractLoop(archive, dest, n) ==
    IF n = 0 THEN <<>>
    ELSE LET before == ExtractLoop(archive, dest, n - 1)
             member == archive[n].name
             rel == relative_path(member, strip_prefix(namelist(archive)))
         IN  IF IsDirEntry(member) \/ rel = <<>> THEN before
             ELSE Append(before,
                         [member |-> member,
                          target |-> Target(dest, rel),
                          data |-> zf_open(archive, member)])

extract(archive, dest) == ExtractLoop(archive, dest, Len(archive))

\* Whether a place lies below the directory dest.
Inside(dest, place) ==
    Len(place) > Len(dest) /\ SubSeq(place, 1, Len(dest)) = dest

\* The path of a place below dest, relative to dest.
RelativeTo(dest, place) ==
    LET n == Len(place) - Len(dest)
    IN  [i \in 1..(2 * n - 1) |->
            IF i % 2 = 1 THEN place[Len(dest) + (i + 1) \div 2] ELSE "/"]

\* The content extraction leaves at path p of dest: that of the last write.
ExtractedAt(writes, dest, p) ==
    LET hits == {i \in 1..Len(writes) :
                    /\ Inside(dest, writes[i].target)
                    /\ RelativeTo(dest, writes[i].target) = p}
    IN  IF hits = {} THEN NoFile
        ELSE writes[CHOOSE i \in hits : \A j \in hits : j <= i].data

(***************************************************************************)
(* Versions, the release index and the download (run_update and what it    *)
(* calls).  A version string is the token sequence of its text; the letter *)
(* "v" and the line break are tokens of their own.                         *)
(***************************************************************************)
Text(s) == <<"text", s>>

\* path.read_text()
read_text(c) ==
    IF c[1] = "text" THEN c[2]
    ELSE IF c[1] = "raw" THEN <<"raw", ToString(c[2])>>
    ELSE <<c[1]>>

RECURSIVE lstrip(_, _)
lstrip(s, chars) ==
    IF s # <<>> /\ Head(s) \in chars THEN lstrip(Tail(s), chars) ELSE s

RECURSIVE rstrip(_, _)
rstrip(s, chars) ==
    IF s # <<>> /\ s[Len(s)] \in chars
    THEN rstrip(SubSeq(s, 1, Len(s) - 1), chars) ELSE s

Whitespace == {" ", "\n"}

\* str.strip()
strip(s) == rstrip(lstrip(s, Whitespace), Whitespace)

Latest == <<"latest">>

get_current_version(f) ==
    IF Exists(f, VersionFile) THEN strip(read_text(f[VersionFile]))
    ELSE <<"0.0.0">>

save_version(f, version) == [f EXCEPT ![VersionFile] = Text(version)]

\* What the latest-release endpoint can answer.
IndexOk(tag) == [kind |-> "ok", tag |-> tag, code |-> 200]
IndexNoTag == [kind |-> "notag", tag |-> <<>>, code |-> 200]
IndexMalformed == [kind |-> "malformed", tag |-> <<>>, code |-> 200]
IndexHttp(code) == [kind |-> "http", tag |-> <<>>, code |-> code]
IndexTimeout == [kind |-> "timeout", tag |-> <<>>, code |-> 0]
IndexUnused == [kind |-> "unused", tag |-> <<>>, code |-> 0]

WarnNoReleases == "Warning: No releases found, using 'latest' tag"
WarnNoFetch == "Warning: Could not fetch latest version"

get_latest_version_fatal_404(answer) ==
    IF answer.kind = "ok"
    THEN [version |-> IF answer.tag # <<>> THEN lstrip(answer.tag, {"v"})
                      ELSE Latest,
          said |-> {}, fatal |-> FALSE]
    ELSE IF answer.kind = "notag"
    THEN [version |-> Latest, said |-> {}, fatal |-> FALSE]
    ELSE IF answer.kind = "http" /\ answer.code = 404
    THEN [version |-> Latest, said |-> {WarnNoReleases}, fatal |-> TRUE]
    ELSE [version |-> Latest, said |-> {WarnNoFetch}, fatal |-> FALSE]

get_latest_version_keeps_v(answer) ==
    IF answer.kind = "ok"
    THEN [version |-> IF answer.tag # <<>> THEN answer.tag ELSE Latest,
          said |-> {}, fatal |-> FALSE]
    ELSE IF answer.kind = "notag"
    THEN [version |-> Latest, said |-> {}, fatal |-> FALSE]
    ELSE IF answer.kind = "http" /\ answer.code = 404
    THEN [version |-> Latest, said |-> {WarnNoReleases}, fatal |-> FALSE]
    ELSE [version |-> Latest, said |-> {WarnNoFetch}, fatal |-> FALSE]

\* get_latest_version: the version it returns and what it prints; it never
\* raises.
get_latest_version(answer) ==
    IF answer.kind = "ok"
    THEN [version |-> IF answer.tag # <<>> THEN lstrip(answer.tag, {"v"})
                      ELSE Latest,
          said |-> {}, fatal |-> FALSE]
    ELSE IF answer.kind = "notag"
    THEN [version |-> Latest, said |-> {}, fatal |-> FALSE]
    ELSE IF answer.kind = "http" /\ answer.code = 404
    THEN [version |-> Latest, said |-> {WarnNoReleases}, fatal |-> FALSE]
    ELSE [version |-> Latest, said |-> {WarnNoFetch}, fatal |-> FALSE]

\* agent_folders, in the order of the dictionary.
agent_folders ==
    << <<".claude", "claude">>, <<".cursor", "cursor-agent">>,
       <<".github", "copilot">>, <<".gemini", "gemini">>,
       <<".qwen", "qwen">>, <<".opencode", "opencode">>,
       <<".codex", "codex">>, <<".windsurf", "windsurf">>,
       <<".kilocode", "kilocode">>, <<".augment", "auggie">>,
       <<".codebuddy", "codebuddy">>, <<".roo", "roo">>,
       <<".amazonq", "q">>, <<".agents", "amp">>, <<".shai", "shai">>,
       <<".bob", "bob">> >>

\* path.exists() of a directory or file of the tree.
PathExists(f, e) == is_dir(f, e) \/ (e \in DOMAIN f /\ Exists(f, e))

detect_agent_and_script_any_marker(f) ==
    LET primary == {i \in 1..Len(agent_folders) :
                       PathExists(f, <<agent_folders[i][1]>>)}
        agent == IF primary = {} THEN "claude"
                 ELSE agent_folders[CHOOSE i \in primary :
                                       \A j \in primary : i <= j][2]
        scripts_dir == Join(<<".spectrena", "scripts">>)
        script_type ==
            IF /\ PathExists(f, scripts_dir)
               /\ PathExists(f, scripts_dir \o <<"/", "powershell">>)
            THEN "ps" ELSE "sh"
    IN  <<agent, script_type>>

detect_agent_and_script(f) ==
    LET primary == {i \in 1..Len(agent_folders) :
                       /\ PathExists(f, <<agent_folders[i][1]>>)
                       /\ \/ PathExists(f, Join(<<agent_folders[i][1],
                                                    "commands">>))
                          \/ agent_folders[i][1] = ".github"}
        agent == IF primary = {} THEN "claude"
                 ELSE agent_folders[CHOOSE i \in primary :
                                       \A j \in primary : i <= j][2]
        scripts_dir == Join(<<".spectrena", "scripts">>)
        script_type ==
            IF /\ PathExists(f, scripts_dir)
               /\ PathExists(f, scripts_dir \o <<"/", "powershell">>)
            THEN "ps" ELSE "sh"
    IN  <<agent, script_type>>

\* The URL download_template asks for.
DownloadUrl(version, agent, script_type) ==
    IF version = Latest
    THEN <<"releases/latest/download/", "spectrena-template-", agent, "-",
           script_type, ".zip">>
    ELSE <<"releases/download/", "v">> \o version \o
         <<"/", "spectrena-template-", agent, "-", script_type, "-", "v">>
         \o version \o <<".zip">>

\* What the download can meet.
DownloadOk(archive) == [kind |-> "ok", code |-> 200, archive |-> archive,
                        upto |-> Len(archive)]
DownloadHttp(code) == [kind |-> "http", code |-> code, archive |-> <<>>,
                       upto |-> 0]
DownloadTimeout == [kind |-> "timeout", code |-> 0, archive |-> <<>>,
                    upto |-> 0]
DownloadBadZip == [kind |-> "badzip", code |-> 200, archive |-> <<>>,
                   upto |-> 0]
\* An archive whose entry number upto + 1 cannot be read.
DownloadCorrupt(archive, upto) ==
    [kind |-> "corrupt", code |-> 200, archive |-> archive, upto |-> upto]
DownloadUnused == [kind |-> "unused", code |-> 0, archive |-> <<>>,
                   upto |-> 0]

ErrNotFound == "Error: Version not found"
HintReleases == "Check available versions"
ErrDownload == "Error: Download failed"

download_template_goes_on(answer, dest) ==
    IF answer.kind = "ok"
    THEN [exit |-> FALSE, said |-> {},
          writes |-> extract(answer.archive, dest)]
    ELSE IF answer.kind = "http" /\ answer.code = 404
    THEN [exit |-> TRUE, said |-> {ErrNotFound, HintReleases},
          writes |-> <<>>]
    ELSE IF answer.kind = "corrupt"
    THEN [exit |-> FALSE, said |-> {ErrDownload},
          writes |-> ExtractLoop(answer.archive, dest, answer.upto)]
    ELSE [exit |-> FALSE, said |-> {ErrDownload}, writes |-> <<>>]

\* download_template: what it prints, whether it ends in typer.Exit(1), and
\* the files it has written by then.
download_template(answer, dest) ==
    IF answer.kind = "ok"
    THEN [exit |-> FALSE, said |-> {},
          writes |-> extract(answer.archive, dest)]
    ELSE IF answer.kind = "http" /\ answer.code = 404
    THEN [exit |-> TRUE, said |-> {ErrNotFound, HintReleases},
          writes |-> <<>>]
    ELSE IF answer.kind = "corrupt"
    THEN [exit |-> TRUE, said |-> {ErrDownload},
          writes |-> ExtractLoop(answer.archive, dest, answer.upto)]
    ELSE [exit |-> TRUE, said |-> {ErrDownload}, writes |-> <<>>]

\* The template directory the writes of the extraction leave behind.
TemplateTree(writes) ==
    [p \in Paths |-> ExtractedAt(writes, DestPath, p)]

EmptyTree == [p \in Paths |-> NoFile]

NoBefore == [outcome |-> "none", force |-> FALSE, target |-> <<>>,
             planFs |-> EmptyTree, tpl |-> EmptyTree,
             actions |-> [p \in Paths |-> "absent"]]

\* run_update before it is called.
NoRun ==
    [version |-> <<>>, dry_run |-> FALSE, force |-> FALSE,
     current |-> <<>>, agent |-> "", script_type |-> "", target |-> <<>>,
     queried |-> FALSE, url |-> <<>>, console |-> {}, outcome |-> "none",
     fault |-> 0, start |-> EmptyTree, before |-> NoBefore,
     temp_dir |-> "none", migration |-> "none"]

\* with tempfile.TemporaryDirectory() as temp_dir: the directory is made
\* when the block is entered.
TemporaryDirectory_enter(r) == [r EXCEPT !.temp_dir = "exists"]

TemporaryDirectory_exit_unless_raised(r) ==
    IF r.outcome \in {"download_failed", "ledger_error", "apply_error"}
    THEN r ELSE [r EXCEPT !.temp_dir = "removed"]

\* The block is left, by its end, a return or an exception: the directory
\* and all it holds are removed.
TemporaryDirectory_exit(r) == [r EXCEPT !.temp_dir = "removed"]

NoNet == [index |-> IndexUnused, download |-> DownloadUnused,
          confirm |-> FALSE]

(***************************************************************************)
(* The states an update starts from.                                       *)
(***************************************************************************)
\* What a copy that fails half way leaves behind.
Truncated == Raw(0)

\* What the user types into a file.
UserText == Raw(MaxContent)

TreeOf(S) ==
    [p \in Paths |-> IF p \in S THEN Raw(1 + (Rank(p) % 2)) ELSE NoFile]

\* The incoming templates: the release of scenario A with a file no table
\* knows, a release with a nested script and two templates, and a release
\* that ships files at the paths the engine itself writes.
Templates ==
    { TreeOf({cfg, cmd, bar, readme}),
      TreeOf({script, bar, baz}),
      TreeOf({bar, HashFile, PendingFile, VersionFile}) }

UserFiles == {cfg, cmd, bar, baz, script, readme, notes}

StaleDoc ==
    Md(<< [path |-> baz, old_hash |-> Digest(Raw(2)),
           new_hash |-> Digest(Raw(3)), diff |-> DiffNotAvailable,
           content |-> Raw(3)] >>)

\* A project that holds nothing of the template yet.
Fresh == [p \in Paths |-> IF p = notes THEN Raw(3) ELSE NoFile]

\* A project set up before the ledger existed.
Legacy ==
    [p \in Paths |-> IF p \in UserFiles \cup {VersionFile} THEN Raw(3)
                     ELSE NoFile]

\* A project left by an earlier update that deferred baz.
Synced ==
    [Legacy EXCEPT
        ![HashFile] = Json([p \in {cmd, bar, script, readme} |->
                               Digest(Raw(3))]),
        ![PendingFile] = StaleDoc]

Projects == {Fresh, Legacy, Synced}

NoProbe == [path |-> <<>>, exists |-> FALSE, modified |-> FALSE,
            result |-> <<>>]

ActionsOf(pl) ==
    [p \in Paths |-> IF \E i \in 1..Len(pl) : pl[i].path = p
                     THEN (CHOOSE e \in Range(pl) : e.path = p).action
                     ELSE "absent"]

Init ==
    /\ fs \in Projects
    /\ tpl \in Templates
    /\ plan = <<>>
    /\ pc = "idle"
    /\ run = 1
    /\ edits = 0
    /\ applies = 0
    /\ scan = "asc"
    /\ planFs = fs
    /\ drift = DriftOf(fs, <<>>)
    /\ pre = fs
    /\ wrotePending = FALSE
    /\ endFs = fs
    /\ prev = [outcome |-> "none", actions |-> ActionsOf(<<>>),
               planFs |-> fs, fs |-> fs]
    /\ probe = NoProbe
    /\ ru = NoRun
    /\ net = NoNet
    /\ ex = <<>>

(***************************************************************************)
(* The operations.                                                         *)
(***************************************************************************)
\* create_update_plan.
CreateUpdatePlan(ord) ==
    /\ pc = "idle"
    /\ LedgerReadable(fs)
    /\ plan' = create_update_plan(fs, tpl, ord)
    /\ scan' = ord
    /\ planFs' = fs
    /\ drift' = DriftOf(fs, plan')
    /\ pc' = "planned"
    /\ UNCHANGED <<fs, tpl, run, edits, applies, pre, wrotePending, endFs,
                   prev, probe, ru, net, ex>>

\* create_update_plan when json.loads rejects the ledger file.
CreateUpdatePlanRaises ==
    /\ pc = "idle"
    /\ ~LedgerReadable(fs)
    /\ pc' = "crashed"
    /\ UNCHANGED <<fs, tpl, plan, run, edits, applies, scan, planFs, drift,
                   pre, wrotePending, endFs, prev, probe, ru, net, ex>>

\* apply_update_plan, run to its end; the same plan may be applied again.
ApplyUpdatePlan ==
    /\ \/ pc = "planned"
       \/ pc = "applied" /\ applies < MaxApply
    /\ pre' = fs
    /\ fs' = apply_update_plan(plan, fs, tpl)
    /\ wrotePending' = WritesPending(plan)
    /\ applies' = applies + 1
    /\ endFs' = IF applies = 0 THEN fs' ELSE endFs
    /\ pc' = "applied"
    /\ UNCHANGED <<tpl, plan, run, edits, scan, planFs, drift, prev, probe,
                   ru, net, ex>>

\* apply_update_plan stopped by a file system error at entry k: the entries
\* before k are done, the destination of entry k is untouched or cut short,
\* and nothing after it runs.
ApplyUpdatePlanRaises(k, cut) ==
    /\ pc = "planned"
    /\ k \in 1..Len(plan)
    /\ Copies(plan[k])
    /\ pre' = fs
    /\ fs' = LET done == ApplyEntries(plan, fs, tpl, k - 1)
             IN  IF cut THEN [done EXCEPT ![plan[k].path] = Truncated]
                 ELSE done
    /\ wrotePending' = FALSE
    /\ pc' = "aborted"
    /\ UNCHANGED <<tpl, plan, run, edits, applies, scan, planFs, drift,
                   endFs, prev, probe, ru, net, ex>>

\* The user deletes a file of the project, makes it byte-identical to the
\* incoming one or types into it, before a run or while a built plan waits
\* to be applied.
UserEdit(p, c) ==
    /\ pc \in {"idle", "planned"}
    /\ edits < MaxEdits
    /\ p \in UserFiles
    /\ Exists(tpl, p)
    /\ c \in {NoFile, tpl[p], UserText}
    /\ c # fs[p]
    /\ fs' = [fs EXCEPT ![p] = c]
    /\ edits' = edits + 1
    /\ UNCHANGED <<tpl, plan, pc, run, applies, scan, planFs, drift, pre,
                   wrotePending, endFs, prev, probe, ru, net, ex>>

\* The run is over and the update is started again on the same template.
NextRun ==
    /\ pc \in {"applied", "aborted", "crashed"}
    /\ run < MaxRuns
    /\ prev' = [outcome |-> pc, actions |-> ActionsOf(plan),
                planFs |-> planFs, fs |-> fs]
    /\ run' = run + 1
    /\ pc' = "idle"
    /\ plan' = <<>>
    /\ applies' = 0
    /\ scan' = "asc"
    /\ planFs' = fs
    /\ drift' = DriftOf(fs, <<>>)
    /\ pre' = fs
    /\ endFs' = fs
    /\ wrotePending' = FALSE
    /\ UNCHANGED <<fs, tpl, edits, probe, ru, net, ex>>

\* Updates on a file system that does not fail, with the user at work.
Next ==
    \/ \E ord \in ScanOrders : CreateUpdatePlan(ord)
    \/ ApplyUpdatePlan
    \/ \E p \in Paths, c \in {Raw(n) : n \in 0..MaxContent} \cup {NoFile} :
          UserEdit(p, c)
    \/ NextRun

Spec == Init /\ [][Next]_vars

\* Updates on a file system that can fail under apply_update_plan.
NextFaults ==
    \/ \E ord \in ScanOrders : CreateUpdatePlan(ord)
    \/ CreateUpdatePlanRaises
    \/ ApplyUpdatePlan
    \/ \E k \in 1..Len(Universe), cut \in BOOLEAN :
          ApplyUpdatePlanRaises(k, cut)
    \/ NextRun

SpecFaults == Init /\ [][NextFaults]_vars

(***************************************************************************)
(* run_update, step by step.  The arguments of the call, the answers of    *)
(* the network and the answer of the user to the confirmation prompt are   *)
(* fixed when the run starts.                                              *)
(***************************************************************************)
ErrNotProject == "Error: Not a spectrena project"
SaidAlready == "Already at version"
SaidDryRun == "Dry run - no changes made"
SaidNoUpdates == "No updates needed"
SaidCancelled == "Cancelled"
SaidUpdated == "Updated to version"
SaidChecking == "Checking database schema..."
SaidSchemaOk == "Database schema up to date"
SaidNoSurreal == "Lineage DB found but surrealdb not installed"
WarnMigration == "Warning: Database migration check failed"

MigrationResults == {"ok", "no_surrealdb", "failed"}

MigrationSaid(result) ==
    IF result = "ok" THEN SaidSchemaOk
    ELSE IF result = "no_surrealdb" THEN SaidNoSurreal
    ELSE WarnMigration

\* The store after ensure_schema has gone through.
Migrated == Raw(2)

Ended == {"run:returned", "run:exit1", "run:raised"}

\* The file of an archive at path p, named below the directories `above`.
Entry(above, p) ==
    [name |-> above \o p, data |-> Raw(1 + (Rank(p) % 2))]

\* A directory entry of an archive.
DirEntry(name) == [name |-> name, data |-> NoFile]

\* The archives a release can hold: one as the packaging script lays it
\* out, two packed below a single directory (the second with nothing but
\* files the project keeps), one that ships files at the paths the engine
\* itself writes, and one with an entry that leaves the directory it is
\* extracted into.
Releases ==
    { << Entry(<<>>, cmd), Entry(<<>>, cfg), Entry(<<>>, bar),
         Entry(<<>>, readme) >>,
      << DirEntry(<<"pkg", "/">>), Entry(<<"pkg", "/">>, script),
         Entry(<<"pkg", "/">>, bar), Entry(<<"pkg", "/">>, baz) >>,
      << Entry(<<"pkg", "/">>, cfg), Entry(<<"pkg", "/">>, readme) >>,
      << Entry(<<>>, cmd), Entry(<<>>, HashFile), Entry(<<>>, VersionFile),
         Entry(<<>>, PendingFile), Entry(<<>>, bar) >>,
      << Entry(<<>>, cmd), Entry(<<>>, cfg),
         [name |-> <<"..", "/", "..", "/", "evil">>, data |-> Raw(1)] >> }

V1 == <<"1.0.0">>
V2 == <<"2.0.0">>

\* A project with nothing but its configuration.
Bare == [p \in Paths |-> IF p = cfg THEN Raw(3) ELSE NoFile]

\* A project at version 1.0.0 left by an earlier update that deferred baz.
Current ==
    [Synced EXCEPT ![VersionFile] = Text(<<"1.0.0", "\n">>)]

\* The same project with a ledger file that is no JSON.
Broken == [Current EXCEPT ![HashFile] = Raw(2)]

\* The same project with a lineage store.
Tracked == [Current EXCEPT ![lineage_db] = Raw(3)]

RunProjects == {Fresh, Bare, Current, Broken, Tracked}

IndexAnswers ==
    { IndexOk(<<"v", "2.0.0">>), IndexOk(<<"v", "1.0.0">>),
      IndexOk(<<"v", "v", "2.0.0">>), IndexNoTag, IndexMalformed,
      IndexHttp(404), IndexHttp(500), IndexTimeout }

DownloadAnswers ==
    {DownloadOk(a) : a \in Releases}
    \cup {DownloadCorrupt(a, Len(a) - 1) : a \in Releases}
    \cup {DownloadHttp(404), DownloadHttp(500), DownloadTimeout,
          DownloadBadZip}

Requests == {<<>>, V1, V2}

Enter(version, dry_run, force, f, before) ==
    [NoRun EXCEPT !.version = version, !.dry_run = dry_run,
                  !.force = force, !.start = f, !.before = before]

InitRun ==
    /\ fs \in RunProjects
    /\ tpl = EmptyTree
    /\ plan = <<>>
    /\ pc = "run:entry"
    /\ run = 1
    /\ edits = 0
    /\ applies = 0
    /\ scan = "asc"
    /\ planFs = fs
    /\ drift = DriftOf(fs, <<>>)
    /\ pre = fs
    /\ wrotePending = FALSE
    /\ endFs = fs
    /\ prev = [outcome |-> "none", actions |-> ActionsOf(<<>>),
               planFs |-> fs, fs |-> fs]
    /\ probe = NoProbe
    /\ \E version \in Requests, dry_run \in BOOLEAN, force \in BOOLEAN :
          ru = Enter(version, dry_run, force, fs, NoBefore)
    /\ net \in [index : IndexAnswers, download : DownloadAnswers,
                confirm : BOOLEAN]
    /\ ru.version # <<>> => net.index = IndexHttp(500)
    /\ ex = <<>>

\* run_update up to the download: the project check, the current version,
\* the agent, the target version and the already-at-version exit.
RunResolve ==
    /\ pc = "run:entry"
    /\ IF ~PathExists(fs, <<".spectrena">>)
       THEN /\ ru' = [ru EXCEPT !.console = @ \cup {ErrNotProject},
                                !.outcome = "not_a_project"]
            /\ pc' = "run:exit1"
       ELSE LET current == get_current_version(fs)
                det == detect_agent_and_script(fs)
                asks == ru.version = <<>>
                got == get_latest_version(net.index)
                target == IF asks THEN got.version ELSE ru.version
                stops == asks /\ got.fatal
                already == ~stops /\ target = current /\ ~ru.force
            IN  /\ ru' = [ru EXCEPT
                            !.current = current,
                            !.agent = det[1],
                            !.script_type = det[2],
                            !.queried = asks,
                            !.target = IF stops THEN <<>> ELSE target,
                            !.console =
                                @ \cup (IF asks THEN got.said ELSE {})
                                  \cup (IF already THEN {SaidAlready}
                                        ELSE {}),
                            !.outcome = IF stops THEN "index_failed"
                                        ELSE IF already THEN "already"
                                        ELSE @]
                /\ pc' = IF stops THEN "run:exit1"
                         ELSE IF already THEN "run:returned"
                         ELSE "run:resolved"
    /\ UNCHANGED <<fs, tpl, plan, run, edits, applies, scan, planFs, drift,
                   pre, wrotePending, endFs, prev, probe, net, ex>>

\* download_template into the temporary directory, which is removed when
\* the download ends the run.
RunDownload ==
    /\ pc = "run:resolved"
    /\ LET got == download_template(net.download, DestPath)
       IN  /\ ex' = got.writes
           /\ tpl' = IF got.exit THEN EmptyTree
                     ELSE TemplateTree(got.writes)
           /\ LET in == [TemporaryDirectory_enter(ru) EXCEPT
                            !.url = DownloadUrl(ru.target, ru.agent,
                                                ru.script_type),
                            !.console = @ \cup got.said,
                            !.outcome = IF got.exit THEN "download_failed"
                                        ELSE @]
               IN  ru' = IF got.exit THEN TemporaryDirectory_exit(in)
                         ELSE in
           /\ pc' = IF got.exit THEN "run:exit1" ELSE "run:downloaded"
    /\ UNCHANGED <<fs, plan, run, edits, applies, scan, planFs, drift, pre,
                   wrotePending, endFs, prev, probe, net>>

\* plan.update_count == 0 and plan.add_count == 0 and plan.merge_count == 0
NothingToDo(pl) ==
    \A i \in 1..Len(pl) : pl[i].action \notin {UPDATE, ADD, MERGE}

RunPlan_dry_run_checked_late(ord) ==
    /\ pc = "run:downloaded"
    /\ IF ~LedgerReadable(fs)
       THEN /\ pc' = "run:raised"
            /\ ru' = TemporaryDirectory_exit(
                          [ru EXCEPT !.outcome = "ledger_error"])
            /\ UNCHANGED <<fs, plan, scan, planFs, drift>>
       ELSE LET pl == create_update_plan(fs, tpl, ord)
            IN  /\ plan' = pl
                /\ scan' = ord
                /\ planFs' = fs
                /\ drift' = DriftOf(fs, pl)
                /\ IF NothingToDo(pl)
                   THEN /\ pc' = "run:returned"
                        /\ ru' = TemporaryDirectory_exit(
                                      [ru EXCEPT
                                         !.console = @ \cup {SaidNoUpdates},
                                         !.outcome =
                                             IF ru.dry_run THEN "dry_run"
                                             ELSE "no_updates"])
                        /\ fs' = save_version(fs, ru.target)
                   ELSE IF ru.dry_run
                   THEN /\ pc' = "run:returned"
                        /\ ru' = TemporaryDirectory_exit(
                                      [ru EXCEPT
                                         !.console = @ \cup {SaidDryRun},
                                         !.outcome = "dry_run"])
                        /\ fs' = fs
                   ELSE /\ pc' = IF ru.force THEN "run:apply"
                                 ELSE "run:confirm"
                        /\ ru' = ru
                        /\ fs' = fs
    /\ UNCHANGED <<tpl, run, edits, applies, pre, wrotePending, endFs, prev,
                   probe, net, ex>>

\* create_update_plan, the display of the plan and the exits that follow
\* it: the dry run and the plan with nothing to do.
RunPlan(ord) ==
    /\ pc = "run:downloaded"
    /\ IF ~LedgerReadable(fs)
       THEN /\ pc' = "run:raised"
            /\ ru' = TemporaryDirectory_exit(
                          [ru EXCEPT !.outcome = "ledger_error"])
            /\ UNCHANGED <<fs, plan, scan, planFs, drift>>
       ELSE LET pl == create_update_plan(fs, tpl, ord)
            IN  /\ plan' = pl
                /\ scan' = ord
                /\ planFs' = fs
                /\ drift' = DriftOf(fs, pl)
                /\ IF ru.dry_run
                   THEN /\ pc' = "run:returned"
                        /\ ru' = TemporaryDirectory_exit(
                                      [ru EXCEPT
                                         !.console = @ \cup {SaidDryRun},
                                         !.outcome = "dry_run"])
                        /\ fs' = fs
                   ELSE IF NothingToDo(pl)
                   THEN /\ pc' = "run:returned"
                        /\ ru' = TemporaryDirectory_exit(
                                      [ru EXCEPT
                                         !.console = @ \cup {SaidNoUpdates},
                                         !.outcome = "no_updates"])
                        /\ fs' = save_version(fs, ru.target)
                   ELSE /\ pc' = IF ru.force THEN "run:apply"
                                 ELSE "run:confirm"
                        /\ ru' = ru
                        /\ fs' = fs
    /\ UNCHANGED <<tpl, run, edits, applies, pre, wrotePending, endFs, prev,
                   probe, net, ex>>

RunConfirm_saves_version ==
    /\ pc = "run:confirm"
    /\ fs' = save_version(fs, ru.target)
    /\ IF net.confirm
       THEN pc' = "run:apply" /\ ru' = ru
       ELSE /\ pc' = "run:returned"
            /\ ru' = TemporaryDirectory_exit(
                          [ru EXCEPT !.console = @ \cup {SaidCancelled},
                                     !.outcome = "cancelled"])
    /\ UNCHANGED <<tpl, plan, run, edits, applies, scan, planFs, drift,
                   pre, wrotePending, endFs, prev, probe, net, ex>>

\* typer.confirm("Apply updates?")
RunConfirm ==
    /\ pc = "run:confirm"
    /\ IF net.confirm
       THEN pc' = "run:apply" /\ ru' = ru
       ELSE /\ pc' = "run:returned"
            /\ ru' = TemporaryDirectory_exit(
                          [ru EXCEPT !.console = @ \cup {SaidCancelled},
                                     !.outcome = "cancelled"])
    /\ UNCHANGED <<fs, tpl, plan, run, edits, applies, scan, planFs, drift,
                   pre, wrotePending, endFs, prev, probe, net, ex>>

\* apply_update_plan, run to its end.
RunApply ==
    /\ pc = "run:apply"
    /\ pre' = fs
    /\ fs' = apply_update_plan(plan, fs, tpl)
    /\ wrotePending' = WritesPending(plan)
    /\ applies' = applies + 1
    /\ endFs' = fs'
    /\ pc' = "run:save"
    /\ UNCHANGED <<tpl, plan, run, edits, scan, planFs, drift, prev, probe,
                   ru, net, ex>>

\* apply_update_plan stopped by a file system error at entry k; the
\* exception leaves run_update.
RunApplyRaises(k, cut) ==
    /\ pc = "run:apply"
    /\ k \in 1..Len(plan)
    /\ Copies(plan[k])
    /\ pre' = fs
    /\ fs' = LET done == ApplyEntries(plan, fs, tpl, k - 1)
             IN  IF cut THEN [done EXCEPT ![plan[k].path] = Truncated]
                 ELSE done
    /\ wrotePending' = FALSE
    /\ pc' = "run:raised"
    /\ ru' = TemporaryDirectory_exit(
                  [ru EXCEPT !.outcome = "apply_error", !.fault = k])
    /\ UNCHANGED <<tpl, plan, run, edits, applies, scan, planFs, drift,
                   endFs, prev, probe, net, ex>>

\* save_version after the apply, the end of the block of the temporary
\* directory, the test for the lineage store and, without one, the closing
\* message.
RunSaveVersion ==
    /\ pc = "run:save"
    /\ fs' = save_version(fs, ru.target)
    /\ LET out == TemporaryDirectory_exit(ru)
       IN  IF PathExists(fs', lineage_db_path)
           THEN /\ pc' = "run:migrate"
                /\ ru' = [out EXCEPT !.console = @ \cup {SaidChecking}]
           ELSE /\ pc' = "run:returned"
                /\ ru' = [out EXCEPT !.console = @ \cup {SaidUpdated},
                                     !.outcome = "updated"]
    /\ UNCHANGED <<tpl, plan, run, edits, applies, scan, planFs, drift, pre,
                   wrotePending, endFs, prev, probe, net, ex>>

RunMigrate_fails_the_run(result, cut) ==
    /\ pc = "run:migrate"
    /\ result \in MigrationResults
    /\ cut => result = "failed"
    /\ fs' = IF result = "ok" THEN [fs EXCEPT ![lineage_db] = Migrated]
             ELSE IF cut THEN [fs EXCEPT ![lineage_db] = Truncated]
             ELSE fs
    /\ IF result = "failed"
       THEN /\ ru' = [ru EXCEPT !.migration = result,
                                !.outcome = "migration_failed"]
            /\ pc' = "run:raised"
       ELSE /\ ru' = [ru EXCEPT
                        !.migration = result,
                        !.console = @ \cup {MigrationSaid(result),
                                            SaidUpdated},
                        !.outcome = "updated"]
            /\ pc' = "run:returned"
    /\ UNCHANGED <<tpl, plan, run, edits, applies, scan, planFs, drift, pre,
                   wrotePending, endFs, prev, probe, net, ex>>

\* asyncio.run(run_migrations()) under its try, and the closing message:
\* the migration goes through, surrealdb is not installed, or the
\* migration raises, with the store as it was or half rewritten.
RunMigrate(result, cut) ==
    /\ pc = "run:migrate"
    /\ result \in MigrationResults
    /\ cut => result = "failed"
    /\ fs' = IF result = "ok" THEN [fs EXCEPT ![lineage_db] = Migrated]
             ELSE IF cut THEN [fs EXCEPT ![lineage_db] = Truncated]
             ELSE fs
    /\ ru' = [ru EXCEPT
                 !.migration = result,
                 !.console = @ \cup {MigrationSaid(result), SaidUpdated},
                 !.outcome = "updated"]
    /\ pc' = "run:returned"
    /\ UNCHANGED <<tpl, plan, run, edits, applies, scan, planFs, drift, pre,
                   wrotePending, endFs, prev, probe, net, ex>>

\* run_update is called again with the same version argument; the
\* temporary directory of the run before is gone.
RunAgain(dry_run, force) ==
    /\ pc \in Ended
    /\ run < MaxRuns
    /\ run' = run + 1
    /\ ru' = Enter(ru.version, dry_run, force, fs,
                   [outcome |-> ru.outcome, force |-> ru.force,
                    target |-> ru.target, planFs |-> planFs, tpl |-> tpl,
                    actions |-> ActionsOf(plan)])
    /\ pc' = "run:entry"
    /\ tpl' = EmptyTree
    /\ plan' = <<>>
    /\ ex' = <<>>
    /\ applies' = 0
    /\ scan' = "asc"
    /\ planFs' = fs
    /\ drift' = DriftOf(fs, <<>>)
    /\ pre' = fs
    /\ endFs' = fs
    /\ wrotePending' = FALSE
    /\ UNCHANGED <<fs, edits, prev, probe, net>>

\* One call of run_update, file system errors under apply_update_plan
\* included.
NextRunUpdate ==
    \/ RunResolve
    \/ RunDownload
    \/ \E ord \in ScanOrders : RunPlan(ord)
    \/ RunConfirm
    \/ RunApply
    \/ \E k \in 1..Len(Universe), cut \in BOOLEAN : RunApplyRaises(k, cut)
    \/ RunSaveVersion
    \/ \E result \in MigrationResults, cut \in BOOLEAN :
          RunMigrate(result, cut)

SpecRun == InitRun /\ [][NextRunUpdate]_vars

\* Calls of run_update one after the other on a file system that does
\* not fail, the release and the user answering the same way each time.
InitRerun ==
    /\ InitRun
    /\ net.download.kind = "ok"

NextRerun ==
    \/ RunResolve
    \/ RunDownload
    \/ \E ord \in ScanOrders : RunPlan(ord)
    \/ RunConfirm
    \/ RunApply
    \/ RunSaveVersion
    \/ \E result \in MigrationResults, cut \in BOOLEAN :
          RunMigrate(result, cut)
    \/ \E dry_run \in BOOLEAN, force \in BOOLEAN : RunAgain(dry_run, force)

SpecRerun == InitRerun /\ [][NextRerun]_vars

(***************************************************************************)
(* The extraction of download_template on its own: the archive is drawn at *)
(* the start and one step extracts it.                                     *)
(***************************************************************************)
\* Entry names an archive can hold: a file at the root, a directory entry,
\* files below two directories, and names that lead out of the directory
\* the archive is extracted into.
ZipNames ==
    << <<"README.md">>,
       <<"pkg", "/">>,
       <<"pkg", "/", "a.md">>,
       <<"pkg", "/", "README.md">>,
       <<"lib", "/", "c.md">>,
       <<"pkg", "/", "..", "/", "..", "/", "evil">>,
       <<"..", "/", "evil">>,
       <<"/", "abs", "/", "evil">> >>

ZipEntry(i) ==
    [name |-> ZipNames[i],
     data |-> IF IsDirEntry(ZipNames[i]) THEN NoFile
              ELSE Raw(i % (MaxContent + 1))]

\* The archives of up to MaxEntries entries, no name twice.
ZipArchives ==
    LET picks == UNION {[1..n -> 1..Len(ZipNames)] : n \in 1..MaxEntries}
        once == {q \in picks :
                    \A i, j \in DOMAIN q : q[i] = q[j] => i = j}
    IN  {[i \in DOMAIN q |-> ZipEntry(q[i])] : q \in once}

InitZip ==
    /\ fs = Fresh
    /\ tpl = EmptyTree
    /\ plan = <<>>
    /\ pc = "zip:open"
    /\ run = 1
    /\ edits = 0
    /\ applies = 0
    /\ scan = "asc"
    /\ planFs = fs
    /\ drift = DriftOf(fs, <<>>)
    /\ pre = fs
    /\ wrotePending = FALSE
    /\ endFs = fs
    /\ prev = [outcome |-> "none", actions |-> ActionsOf(<<>>),
               planFs |-> fs, fs |-> fs]
    /\ probe = NoProbe
    /\ ru = NoRun
    /\ \E a \in ZipArchives :
          net = [NoNet EXCEPT !.download = DownloadOk(a)]
    /\ ex = <<>>

\* with zipfile.ZipFile(zip_data, 'r') as zf: ... to the end of the loop.
ExtractArchive ==
    /\ pc = "zip:open"
    /\ ex' = download_template(net.download, DestPath).writes
    /\ pc' = "zip:done"
    /\ UNCHANGED <<fs, tpl, plan, run, edits, applies, scan, planFs, drift,
                   pre, wrotePending, endFs, prev, probe, ru, net>>

NextZip == ExtractArchive

SpecZip == InitZip /\ [][NextZip]_vars

(***************************************************************************)
(* detect_agent_and_script on its own: a project is drawn at the start and *)
(* one step asks for its agent and script type.                            *)
(***************************************************************************)
\* Files a project can hold under the marker directories and the scripts
\* directory: marker directories with and without a commands folder, a
\* marker that is a plain file, and both script folders.
DetectPaths ==
    { Join(<<".claude", "settings.json">>),
      Join(<<".claude", "commands", "foo.md">>),
      Join(<<".cursor", "rules.md">>),
      Join(<<".github", "workflows", "ci.yml">>),
      Join(<<".gemini", "commands", "g.toml">>),
      Join(<<".windsurf">>),
      Join(<<".bob", "commands", "b.md">>),
      Join(<<".spectrena", "config.yml">>),
      Join(<<".spectrena", "scripts", "bash", "run.sh">>),
      Join(<<".spectrena", "scripts", "powershell", "run.ps1">>) }

DetectProjects ==
    {[p \in DetectPaths |-> IF p \in S THEN Raw(1) ELSE NoFile] :
        S \in SUBSET DetectPaths}

InitDetect ==
    /\ fs \in DetectProjects
    /\ tpl = EmptyTree
    /\ plan = <<>>
    /\ pc = "detect:call"
    /\ run = 1
    /\ edits = 0
    /\ applies = 0
    /\ scan = "asc"
    /\ planFs = fs
    /\ drift = [p \in Paths |-> FALSE]
    /\ pre = fs
    /\ wrotePending = FALSE
    /\ endFs = fs
    /\ prev = [outcome |-> "none", actions |-> ActionsOf(<<>>),
               planFs |-> fs, fs |-> fs]
    /\ probe = NoProbe
    /\ ru = NoRun
    /\ net = NoNet
    /\ ex = <<>>

\* agent, script_type = detect_agent_and_script(project_path)
CallDetect ==
    /\ pc = "detect:call"
    /\ LET det == detect_agent_and_script(fs)
       IN  ru' = [ru EXCEPT !.agent = det[1], !.script_type = det[2]]
    /\ pc' = "detect:returned"
    /\ UNCHANGED <<fs, tpl, plan, run, edits, applies, scan, planFs, drift,
                   pre, wrotePending, endFs, prev, probe, net, ex>>

NextDetect == CallDetect

SpecDetect == InitDetect /\ [][NextDetect]_vars

(***************************************************************************)
(* categorize_file on its own: the arguments are drawn at the start and    *)
(* the call stores its result.                                             *)
(***************************************************************************)
ProbePreserve ==
    { cfg,
      Join(<<".spectrena", "memory", "constitution.md">>),
      Join(<<".spectrena", "memory", "notes", "a.md">>),
      Join(<<".spectrena", "backlog.md">>),
      Join(<<".spectrena", "lineage.db", "LOCK">>),
      Join(<<".spectrena", "discovery.md">>),
      Join(<<"specs", "001-login", "spec.md">>),
      Join(<<"specs", "index.md">>) }

ProbeUpdate ==
    { cmd, script,
      Join(<<".spectrena", "scripts", "run.sh">>),
      Join(<<".cursor", "commands", "foo.md">>),
      Join(<<".github", "copilot-instructions.md">>),
      Join(<<".windsurf", "commands", "foo.md">>),
      Join(<<".cline", "commands", "foo.md">>),
      Join(<<".roo-cline", "commands", "foo.md">>),
      Join(<<".claude", "commands", "sub", "foo.md">>) }

ProbeMerge ==
    { bar, baz, Join(<<".spectrena", "templates", "sub", "bar.md">>) }

ProbeUnknown ==
    { readme, notes, HashFile, PendingFile, VersionFile,
      Join(<<"specs">>),
      Join(<<".spectrena", "scripts">>),
      Join(<<".github", "workflows", "ci.yml">>),
      Join(<<".claude", "settings.json">>),
      Join(<<".claude", "commands">>),
      Join(<<".spectrena", "templates">>),
      Join(<<"config.yml">>),
      Join(<<"docs", ".spectrena", "config.yml">>),
      Join(<<"docs", "specs", "a.md">>),
      Join(<<".spectrena", "config.yml", "x">>) }

ProbePaths == ProbePreserve \cup ProbeUpdate \cup ProbeMerge \cup ProbeUnknown

InitCat ==
    /\ fs = Fresh
    /\ tpl = TreeOf({cfg, cmd, bar, readme})
    /\ plan = <<>>
    /\ pc = "idle"
    /\ run = 1
    /\ edits = 0
    /\ applies = 0
    /\ scan = "asc"
    /\ planFs = fs
    /\ drift = DriftOf(fs, <<>>)
    /\ pre = fs
    /\ wrotePending = FALSE
    /\ endFs = fs
    /\ prev = [outcome |-> "none", actions |-> ActionsOf(<<>>),
               planFs |-> fs, fs |-> fs]
    /\ probe \in [path : ProbePaths, exists : BOOLEAN, modified : BOOLEAN,
                  result : {<<>>}]
    /\ ru = NoRun
    /\ net = NoNet
    /\ ex = <<>>

CallCategorize ==
    /\ probe.path # <<>>
    /\ probe.result = <<>>
    /\ probe' = [probe EXCEPT
                    !.result = categorize_file(probe.path, probe.exists,
                                               probe.modified)]
    /\ UNCHANGED <<fs, tpl, plan, pc, run, edits, applies, scan, planFs,
                   drift, pre, wrotePending, endFs, prev, ru, net, ex>>

NextCat == CallCategorize

SpecCat == InitCat /\ [][NextCat]_vars

(***************************************************************************)
(* Properties.                                                             *)
(***************************************************************************)
\* C1: categorize_file follows the fixed-priority table: a path under a
\* PRESERVE pattern is PRESERVE whatever exists and modified are; a path
\* under an UPDATE pattern is UPDATE if it exists and ADD if not; a path
\* under a MERGE pattern is ADD if absent, MERGE if present and modified,
\* UPDATE if present and unmodified; any other path is PRESERVE if it
\* exists and ADD if not.
C1_CategorizeTable ==
    probe.result # <<>> =>
        LET a == probe.result[1]
            e == probe.exists
            m == probe.modified
        IN  /\ probe.path \in ProbePreserve => a = PRESERVE
            /\ probe.path \in ProbeUpdate => a = (IF e THEN UPDATE ELSE ADD)
            /\ probe.path \in ProbeMerge =>
                  a = (IF ~e THEN ADD ELSE IF m THEN MERGE ELSE UPDATE)
            /\ probe.path \in ProbeUnknown => a = (IF e THEN PRESERVE ELSE ADD)

C1_Witness ==
    /\ probe.path = Join(<<".spectrena", "templates", "sub", "bar.md">>)
    /\ probe.exists
    /\ probe.modified
    /\ probe.result # <<>>
    /\ probe.result[1] = MERGE

(***************************************************************************)
(* Helpers of the properties below.                                        *)
(***************************************************************************)
\* p existed when the plan was built and its digest was not the one the
\* ledger held for it, or the ledger held none.
LocallyChanged(p) ==
    /\ Exists(planFs, p)
    /\ \/ p \notin DOMAIN load_original_hashes(planFs)
       \/ Digest(planFs[p]) # load_original_hashes(planFs)[p]

\* p has a section in the reconciliation document the last apply wrote.
Listed(p) ==
    /\ wrotePending
    /\ fs[PendingFile][1] = "md"
    /\ \E j \in 1..Len(fs[PendingFile][2]) : fs[PendingFile][2][j].path = p

\* One plan building and one apply, with nothing in between.
PlannedAndApplied == pc = "applied" /\ applies = 1 /\ pre = planFs

MergeIdx == {i \in 1..Len(plan) : plan[i].action = MERGE}

NthMerge(j) ==
    CHOOSE i \in MergeIdx : Cardinality({m \in MergeIdx : m < i}) = j - 1

\* C2 as stated: every file that existed and was locally changed is, after
\* plan building and apply, unchanged or listed in the reconciliation
\* document of the run.
C2_NoSilentLoss ==
    PlannedAndApplied =>
        \A p \in Paths : LocallyChanged(p) => fs[p] = planFs[p] \/ Listed(p)

\* C2 amended: the same for every file whose path matches no UPDATE
\* pattern and is neither the ledger nor the reconciliation document.
C2_NoSilentLossOutsideUpdate ==
    PlannedAndApplied =>
        \A p \in Paths \ {HashFile, PendingFile} :
            LocallyChanged(p) /\ ~matches_pattern(p, UPDATE_PATTERNS)
                => fs[p] = planFs[p] \/ Listed(p)

C2_Witness ==
    /\ PlannedAndApplied
    /\ LocallyChanged(bar) /\ Listed(bar) /\ fs[bar] = planFs[bar]
    /\ LocallyChanged(readme) /\ Exists(tpl, readme)
    /\ fs[readme] = planFs[readme] /\ fs[readme] # tpl[readme]

\* C3: the modified flag of a scanned path is: the local file exists and
\* the ledger has no entry for it or a digest other than the file's; so on
\* a first sync an existing MERGE-pattern file is MERGE, also when it is
\* byte-identical to the incoming one.
C3_ModifiedFlag ==
    pc \in {"planned", "applied"} =>
        \A i \in 1..Len(plan) :
            LET p == plan[i].path
                ledger == load_original_hashes(planFs)
            IN  /\ drift[p] =
                      (/\ Exists(planFs, p)
                       /\ \/ p \notin DOMAIN ledger
                          \/ Digest(planFs[p]) # ledger[p])
                /\ (/\ p \in ProbeMerge
                    /\ Exists(planFs, p)
                    /\ ~Exists(planFs, HashFile)) => plan[i].action = MERGE

C3_Witness ==
    /\ pc = "planned"
    /\ ~Exists(planFs, HashFile)
    /\ Exists(planFs, bar) /\ planFs[bar] = tpl[bar]
    /\ drift[bar]
    /\ ActionsOf(plan)[bar] = MERGE

\* C4: the plan holds exactly one entry for every file of the incoming
\* tree, at any depth, and no entry for anything else.
C4_PlanComplete ==
    pc \in {"planned", "applied"} =>
        /\ \A p \in Paths :
              Exists(tpl, p) =>
                  Cardinality({i \in 1..Len(plan) : plan[i].path = p}) = 1
        /\ \A i \in 1..Len(plan) :
              plan[i].path \in Paths /\ Exists(tpl, plan[i].path)

C4_Witness ==
    /\ pc = "planned"
    /\ Exists(tpl, script) /\ ActionsOf(plan)[script] # "absent"
    /\ Exists(planFs, notes) /\ Exists(planFs, cmd) /\ ~Exists(tpl, cmd)
    /\ ActionsOf(plan)[cmd] = "absent"
    /\ Len(plan) = 3

\* C5 as stated: apply_update_plan leaves the file of every PRESERVE or
\* MERGE entry as it was, whatever the path.
C5_PreserveMergeUntouched ==
    pc = "applied" =>
        \A i \in 1..Len(plan) :
            plan[i].action \in {PRESERVE, MERGE}
                => fs[plan[i].path] = pre[plan[i].path]

\* C5 amended: the same for every PRESERVE or MERGE entry whose path is
\* neither the ledger nor the reconciliation document.
C5_PreserveMergeUntouchedButEngineFiles ==
    pc = "applied" =>
        \A i \in 1..Len(plan) :
            /\ plan[i].action \in {PRESERVE, MERGE}
            /\ plan[i].path \notin {HashFile, PendingFile}
            => fs[plan[i].path] = pre[plan[i].path]

C5_Witness ==
    /\ pc = "applied"
    /\ ActionsOf(plan)[VersionFile] = PRESERVE /\ Exists(pre, VersionFile)
    /\ fs[VersionFile] = pre[VersionFile]
    /\ ActionsOf(plan)[bar] = MERGE /\ fs[bar] = pre[bar]
    /\ fs[bar] # tpl[bar]

\* C6 as stated: after apply_update_plan the file of every UPDATE or ADD
\* entry exists and holds the content of the incoming file.
C6_CopiedEqualsIncoming ==
    pc = "applied" =>
        \A i \in 1..Len(plan) :
            plan[i].action \in {UPDATE, ADD}
                => /\ Exists(fs, plan[i].path)
                   /\ fs[plan[i].path] = tpl[plan[i].path]

\* C6 amended: the same for every UPDATE or ADD entry whose path is neither
\* the ledger nor the reconciliation document.
C6_CopiedEqualsIncomingButEngineFiles ==
    pc = "applied" =>
        \A i \in 1..Len(plan) :
            /\ plan[i].action \in {UPDATE, ADD}
            /\ plan[i].path \notin {HashFile, PendingFile}
            => /\ Exists(fs, plan[i].path)
               /\ fs[plan[i].path] = tpl[plan[i].path]

C6_Witness ==
    /\ pc = "applied"
    /\ ActionsOf(plan)[cmd] = UPDATE
    /\ drift[cmd] /\ pre[cmd] # tpl[cmd] /\ fs[cmd] = tpl[cmd]

\* C7: a completed apply_update_plan leaves a ledger whose keys are exactly
\* the paths of the UPDATE and ADD entries, each with the digest of the
\* incoming file; no other entry survives.
C7_LedgerRewritten ==
    pc = "applied" =>
        /\ fs[HashFile][1] = "json"
        /\ DOMAIN fs[HashFile][2] =
              {plan[i].path : i \in {j \in 1..Len(plan) :
                                        plan[j].action \in {UPDATE, ADD}}}
        /\ \A p \in DOMAIN fs[HashFile][2] :
              fs[HashFile][2][p] = Digest(tpl[p])

C7_Witness ==
    /\ pc = "applied"
    /\ ~wrotePending
    /\ Exists(pre, HashFile)
    /\ readme \in DOMAIN pre[HashFile][2]
    /\ ActionsOf(plan)[readme] = PRESERVE
    /\ cmd \in DOMAIN fs[HashFile][2]
    /\ readme \notin DOMAIN fs[HashFile][2]

C9_ReapplySame ==
    (pc = "applied" /\ applies >= 2) => fs = endFs

C9_Witness ==
    /\ pc = "applied" /\ applies = 2
    /\ wrotePending
    /\ \E i \in 1..Len(plan) :
          plan[i].action = UPDATE /\ planFs[plan[i].path] # tpl[plan[i].path]
    /\ fs = endFs

\* C10 as stated: a run after an aborted apply, with nothing else changed,
\* gives every path the action it had in the aborted run and ends in the
\* files, ledger and reconciliation document of a run without the fault.
C10_RerunAfterFault ==
    (pc = "applied" /\ prev.outcome = "aborted") =>
        /\ ActionsOf(plan) = prev.actions
        /\ fs = apply_update_plan(
                    create_update_plan(prev.planFs, tpl, scan),
                    prev.planFs, tpl)

(***************************************************************************)
(* Helpers of the properties of run_update.                                *)
(***************************************************************************)
EnginePaths == {HashFile, PendingFile, VersionFile}

ApplyFailed == pc = "run:raised" /\ ru.outcome = "apply_error"

\* Whether an entry of the plan up to number k copies onto path q.
CopiedUpTo(k, q) ==
    \E i \in 1..k : Copies(plan[i]) /\ plan[i].path = q

\* C11 as stated: when a file system error stops apply_update_plan at entry
\* k, no entry after k has been processed, the files copied for the entries
\* before k have their new content, and the ledger, the reconciliation
\* document and the version marker are as they were when the run started.
C11_AbortKeepsEngineFiles ==
    ApplyFailed =>
        /\ \A i \in (ru.fault + 1)..Len(plan) :
              fs[plan[i].path] = ru.start[plan[i].path]
        /\ \A i \in 1..(ru.fault - 1) :
              Copies(plan[i]) => fs[plan[i].path] = tpl[plan[i].path]
        /\ \A q \in EnginePaths : fs[q] = ru.start[q]

\* C11 amended: as C11, but the ledger, the reconciliation document and the
\* version marker are as they were when the run started only where no entry
\* of the plan up to k copies a template file onto that very path.
C11_AbortKeepsEngineFilesNotCopied ==
    ApplyFailed =>
        /\ \A i \in (ru.fault + 1)..Len(plan) :
              fs[plan[i].path] = ru.start[plan[i].path]
        /\ \A i \in 1..(ru.fault - 1) :
              Copies(plan[i]) => fs[plan[i].path] = tpl[plan[i].path]
        /\ \A q \in EnginePaths :
              ~CopiedUpTo(ru.fault, q) => fs[q] = ru.start[q]

C11_Witness ==
    /\ ApplyFailed
    /\ ru.fault >= 2
    /\ \E i \in 1..(ru.fault - 1) :
          /\ Copies(plan[i])
          /\ ru.start[plan[i].path] # tpl[plan[i].path]
          /\ fs[plan[i].path] = tpl[plan[i].path]
    /\ \E i \in (ru.fault + 1)..Len(plan) : plan[i].action = MERGE
    /\ fs[PendingFile] = ru.start[PendingFile]
    /\ fs[VersionFile] = ru.start[VersionFile]
    /\ ru.target # ru.current

\* The plan step of run_update is behind.
PlanStepDone ==
    \/ pc \in {"run:confirm", "run:apply", "run:save", "run:migrate"}
    \/ ru.outcome \in {"dry_run", "no_updates", "cancelled", "updated",
                       "ledger_error", "apply_error"}

\* The warning the loss of the drift history is to be surfaced with.
WarnLedger == "Warning: ledger unreadable"

\* C12 as stated: when the ledger file exists but cannot be parsed, loading
\* it yields an empty mapping and a warning is printed; the plan is built
\* as for a project that was never synced and the run does not end with an
\* error.
C12_UnreadableLedgerIsEmpty ==
    (PlanStepDone /\ ~LedgerReadable(ru.start)) =>
        /\ ru.outcome # "ledger_error"
        /\ WarnLedger \in ru.console
        /\ ActionsOf(plan) =
               ActionsOf(create_update_plan(
                             [planFs EXCEPT ![HashFile] = Json(<<>>)],
                             tpl, scan))

ApplyCompleted ==
    pc \in {"run:save", "run:migrate"} \/ ru.outcome = "updated"

\* C13 as stated: in every execution of run_update the version marker
\* differs from its value at the start of the run only once
\* apply_update_plan has completed in that execution.
C13_VersionOnlyAfterApply ==
    fs[VersionFile] # ru.start[VersionFile] => ApplyCompleted

\* C13 amended: the version marker differs from its value at the start of
\* the run only once apply_update_plan has completed, or when the run, not
\* a dry run, found a plan without any UPDATE, ADD or MERGE entry and saved
\* the target version without applying, or when the apply that failed had
\* copied a template file onto the marker's own path; a run that ends as
\* updated or with nothing to do leaves the target version in the marker.
C13_VersionAfterApplyOrNothingToDo ==
    /\ fs[VersionFile] # ru.start[VersionFile] =>
          \/ ApplyCompleted
          \/ /\ ru.outcome = "no_updates"
             /\ ~ru.dry_run
             /\ \A i \in 1..Len(plan) :
                   plan[i].action \notin {UPDATE, ADD, MERGE}
          \/ ApplyFailed /\ CopiedUpTo(ru.fault, VersionFile)
    /\ ru.outcome \in {"updated", "no_updates"} =>
          fs[VersionFile] = Text(ru.target)

C13_Witness ==
    /\ pc = "run:returned"
    /\ ru.outcome = "updated"
    /\ applies = 1
    /\ fs[VersionFile] = Text(ru.target)
    /\ ru.start[VersionFile] = Text(<<"1.0.0", "\n">>)
    /\ ru.target = V2

PlanBuilt ==
    \/ pc \in {"run:confirm", "run:apply", "run:save", "run:migrate"}
    \/ ru.outcome \in {"dry_run", "no_updates", "cancelled", "updated"}

\* C15: when run_update planned twice from the same project tree and
\* ledger, the same incoming template and the same target version, once
\* with force and once without, both plans give every path the same
\* action; a run with force never asks for confirmation and never stops
\* because the project is at the target version already.
C15_ForceKeepsClassification ==
    /\ ( /\ PlanBuilt
         /\ ru.before.outcome \in {"dry_run", "cancelled", "no_updates",
                                   "updated"}
         /\ ru.before.force # ru.force
         /\ ru.before.planFs = planFs
         /\ ru.before.tpl = tpl
         /\ ru.before.target = ru.target )
       => ActionsOf(plan) = ru.before.actions
    /\ ru.force => /\ pc # "run:confirm"
                   /\ ru.outcome \notin {"cancelled", "already"}

C15_Witness ==
    /\ PlanBuilt
    /\ ru.force
    /\ ru.before.outcome = "cancelled"
    /\ ~ru.before.force
    /\ ru.before.planFs = planFs
    /\ ru.before.tpl = tpl
    /\ ru.before.target = ru.target
    /\ \E p \in Paths : ru.before.actions[p] = MERGE
    /\ \E p \in Paths : ru.before.actions[p] = UPDATE
    /\ ActionsOf(plan) = ru.before.actions

Resolved == pc # "run:entry" /\ ru.outcome # "not_a_project"

Warnings == {WarnNoReleases, WarnNoFetch}

IndexFailed == net.index.kind \in {"http", "timeout", "malformed", "notag"}

\* C17 as stated: a requested version is the target as it stands and the
\* release index is not asked; without one the target is the tag of the
\* latest release without its leading "v"; when the query fails (an HTTP
\* error of any status, a timeout, a malformed response or one without a
\* tag) the target is "latest", a warning is printed and the run goes on.
C17_ResolveWarnsOnEveryFailure ==
    Resolved =>
        /\ ru.version # <<>> => ru.target = ru.version /\ ~ru.queried
        /\ (ru.version = <<>> /\ net.index.kind = "ok") =>
              ru.target = lstrip(net.index.tag, {"v"})
        /\ (ru.version = <<>> /\ IndexFailed) =>
              /\ ru.target = Latest
              /\ ru.console \cap Warnings # {}
              /\ ru.outcome # "index_failed"

\* C17 amended: as C17, but a response without a tag makes the target
\* "latest" without any warning; the warning is printed for an HTTP error,
\* a timeout and a malformed response only, and every leading "v" of the
\* tag is dropped.
C17_ResolveWarnsUnlessTagless ==
    Resolved =>
        /\ ru.version # <<>> =>
              /\ ru.target = ru.version
              /\ ~ru.queried
              /\ ru.console \cap Warnings = {}
        /\ (ru.version = <<>> /\ net.index.kind = "ok") =>
              /\ ru.queried
              /\ ru.target = lstrip(net.index.tag, {"v"})
              /\ (ru.target = <<>> \/ ru.target[1] # "v")
              /\ ru.console \cap Warnings = {}
        /\ (ru.version = <<>> /\ IndexFailed) =>
              /\ ru.queried
              /\ ru.target = Latest
              /\ ru.outcome # "index_failed"
              /\ IF net.index.kind = "notag"
                 THEN ru.console \cap Warnings = {}
                 ELSE ru.console \cap Warnings # {}

C17_Witness ==
    /\ pc = "run:downloaded"
    /\ ru.version = <<>>
    /\ net.index = IndexTimeout
    /\ ru.target = Latest
    /\ WarnNoFetch \in ru.console
    /\ ru.url = DownloadUrl(Latest, "claude", "sh")
    /\ ru.current = V1

\* C18 as stated: an HTTP 404 from the release index ends the run with the
\* not-found error and its hint, as a 404 on the archive does; no download
\* is tried.
C18_Index404IsFatal ==
    (Resolved /\ ru.queried /\ net.index = IndexHttp(404)) =>
        /\ pc = "run:exit1"
        /\ {ErrNotFound, HintReleases} \subseteq ru.console
        /\ ru.url = <<>>

\* C18 amended: an HTTP 404 from the release index does not end the run:
\* the warning that no releases were found is printed, the target becomes
\* "latest" and the run goes on to the download; the not-found error and
\* its hint are printed, and the run ended, by a 404 on the archive only.
C18_Index404Degrades ==
    /\ (Resolved /\ ru.queried /\ net.index = IndexHttp(404)) =>
          /\ ru.outcome # "index_failed"
          /\ WarnNoReleases \in ru.console
          /\ ru.target = Latest
          /\ pc \in {"run:returned", "run:exit1"} =>
                ru.url = DownloadUrl(Latest, ru.agent, ru.script_type)
    /\ ErrNotFound \in ru.console <=>
          /\ ru.outcome = "download_failed"
          /\ net.download = DownloadHttp(404)
    /\ ErrNotFound \in ru.console =>
          HintReleases \in ru.console /\ pc = "run:exit1"

C18_Witness ==
    /\ pc = "run:save"
    /\ ru.queried
    /\ net.index = IndexHttp(404)
    /\ WarnNoReleases \in ru.console
    /\ ru.target = Latest
    /\ ru.url = DownloadUrl(Latest, "claude", "sh")

(***************************************************************************)
(* Helpers of the properties of the extraction.                            *)
(***************************************************************************)
Archive == net.download.archive

FileEntries == {i \in 1..Len(Archive) : ~IsDirEntry(Archive[i].name)}

\* A name that stays below the directory it is joined to: no ".."
\* segment and no leading separator.
PlainName(name) ==
    /\ name[1] # "/"
    /\ \A i \in 1..Len(name) : name[i] # ".."

\* Every entry of the archive lies under one and the same top-level
\* directory.
CommonTop ==
    /\ \A i \in 1..Len(Archive) : HasSep(Archive[i].name)
    /\ \A i, j \in 1..Len(Archive) :
          FirstPart(Archive[i].name) = FirstPart(Archive[j].name)

\* The place below dest of an entry name, the leading directory dropped
\* when every entry lies under the same one.
ExpectedTarget(name) ==
    DestPath \o Segments(IF CommonTop THEN SubSeq(name, 3, Len(name))
                         ELSE name)

\* C19 as stated: the leading directory is dropped from the entry names if
\* and only if every entry of the archive lies under one and the same
\* top-level directory; otherwise every file is written at its full name
\* below dest; directory entries are skipped and every file entry is
\* written, in the order of the archive.
C19_StripIffCommonTop ==
    (pc = "zip:done" /\ \A i \in 1..Len(Archive) : PlainName(Archive[i].name))
    =>
        /\ Len(ex) = Cardinality(FileEntries)
        /\ \A i \in FileEntries :
              \E w \in Range(ex) :
                 /\ w.member = Archive[i].name
                 /\ w.target = ExpectedTarget(Archive[i].name)

\* C20 as stated: the extraction writes no file outside the destination
\* directory; an entry whose path leaves it is not written.
C20_NoWriteOutsideDest ==
    pc = "zip:done" => \A w \in Range(ex) : Inside(DestPath, w.target)

\* C21 as stated: for the same project tree, incoming tree and ledger,
\* create_update_plan returns the entries in the same order whatever order
\* the file system hands out the directory entries in.
C21_PlanOrderFixed ==
    pc = "planned" =>
        \A ord \in ScanOrders : plan = create_update_plan(planFs, tpl, ord)

(***************************************************************************)
(* Helpers of the properties of detect_agent_and_script.                   *)
(***************************************************************************)
Marker(i) == <<agent_folders[i][1]>>

MarkerFound(i) == PathExists(fs, Marker(i))

HasCommands(i) == PathExists(fs, Join(<<agent_folders[i][1], "commands">>))

Qualifies(i) ==
    MarkerFound(i) /\ (HasCommands(i) \/ agent_folders[i][1] = ".github")

FirstOf(S) == CHOOSE i \in S : \A j \in S : i <= j

PowershellFound ==
    PathExists(fs, Join(<<".spectrena", "scripts", "powershell">>))

\* C22 as stated: detect_agent_and_script changes nothing; a marker
\* directory with a commands folder is preferred over the ones without, so
\* the agent is that of the first marker directory, in table order, that
\* holds a commands folder whenever there is one; the script variant is
\* "ps" exactly when .spectrena/scripts/powershell exists; and the answer
\* is (claude, sh) when no marker directory is found.
C22_DetectAsStated ==
    pc = "detect:returned" =>
        LET all == 1..Len(agent_folders)
            withCommands == {i \in all : MarkerFound(i) /\ HasCommands(i)}
        IN  /\ fs = pre
            /\ withCommands # {} =>
                  ru.agent = agent_folders[FirstOf(withCommands)][2]
            /\ ru.script_type = (IF PowershellFound THEN "ps" ELSE "sh")
            /\ (\A i \in all : ~MarkerFound(i)) =>
                  (ru.agent = "claude" /\ ru.script_type = "sh")

\* C22, amended: detect_agent_and_script changes nothing; the agent is that
\* of the first table entry, in table order, whose directory exists and
\* either holds a commands entry or is .github, and "claude" when no entry
\* is such; independently of the agent, the script variant is "ps" exactly
\* when .spectrena/scripts/powershell exists and "sh" otherwise.
C22_DetectFirstQualifying ==
    pc = "detect:returned" =>
        LET all == 1..Len(agent_folders)
            good == {i \in all : Qualifies(i)}
        IN  /\ fs = pre
            /\ \A i \in good :
                  (\A j \in good : i <= j) => ru.agent = agent_folders[i][2]
            /\ good = {} => ru.agent = "claude"
            /\ ru.script_type = "ps" <=> PowershellFound
            /\ ru.script_type \in {"ps", "sh"}

\* A marker directory without a commands folder comes before one with a
\* commands folder, and the powershell scripts are there.
C22_Witness ==
    /\ pc = "detect:returned"
    /\ MarkerFound(2) /\ ~HasCommands(2)
    /\ Qualifies(4)
    /\ ~MarkerFound(1) /\ ~MarkerFound(3)
    /\ ru.agent = "gemini"
    /\ ru.script_type = "ps"

\* C23: in every plan create_update_plan builds, an entry with action MERGE
\* carries a diff exactly when the local file existed when the plan was
\* built, the diff being that of the local and the incoming file, and no
\* entry with another action carries one; a MERGE entry whose local file
\* is byte-identical to the incoming one carries the diff too.
C23_DiffOnMergeOnly ==
    pc \in {"planned", "applied"} =>
        \A i \in 1..Len(plan) :
            LET e == plan[i]
            IN  /\ e.action = MERGE =>
                      /\ e.diff # NoDiff <=> Exists(planFs, e.path)
                      /\ Exists(planFs, e.path) =>
                            e.diff = generate_diff(planFs[e.path], tpl[e.path])
                /\ e.action # MERGE => e.diff = NoDiff

\* A never-synced template file the user made byte-identical to the incoming
\* one is planned MERGE with a diff; another file of the plan is copied and
\* has none.
C23_Witness ==
    /\ pc = "planned"
    /\ \E i, j \in 1..Len(plan) :
          /\ plan[i].action = MERGE
          /\ planFs[plan[i].path] = tpl[plan[i].path]
          /\ plan[i].path \notin DOMAIN load_original_hashes(planFs)
          /\ plan[i].diff = EmptyDiff
          /\ plan[j].action \in {UPDATE, PRESERVE}
          /\ Exists(planFs, plan[j].path)
          /\ plan[j].diff = NoDiff

\* C24: no plan create_update_plan builds holds an entry with action
\* DEPRECATED; the four derived counts add up to the number of entries,
\* and every entry is counted by exactly one of them.
C24_NoDeprecatedCountsAddUp ==
    pc \in {"planned", "applied"} =>
        /\ \A i \in 1..Len(plan) : plan[i].action # DEPRECATED
        /\ preserve_count(plan) + update_count(plan)
              + merge_count(plan) + add_count(plan) = Len(plan)
        /\ \A i \in 1..Len(plan) :
              Cardinality({a \in {PRESERVE, UPDATE, MERGE, ADD} :
                              CountOf(<<plan[i]>>, a) = 1}) = 1

\* A plan with an entry of each of the four actions.
C24_Witness ==
    /\ pc = "planned"
    /\ preserve_count(plan) > 0
    /\ update_count(plan) > 0
    /\ merge_count(plan) > 0
    /\ add_count(plan) > 0

\* C25: the temporary directory run_update makes is removed on every way
\* out that follows its making (download failure, error while the plan is
\* built or applied, dry run, declined confirmation, nothing to do, the
\* normal end): it exists only while the run stands between the download
\* and the version marker, and no ended run leaves it behind.
C25_TempDirRemoved ==
    /\ ru.temp_dir = "exists" <=>
          pc \in {"run:downloaded", "run:confirm", "run:apply", "run:save"}
    /\ pc \in Ended \cup {"run:migrate"} =>
          /\ ru.temp_dir # "exists"
          /\ ru.outcome \in {"download_failed", "ledger_error",
                             "apply_error", "dry_run", "cancelled",
                             "no_updates", "updated"}
                => ru.temp_dir = "removed"
    /\ pc = "run:migrate" => ru.temp_dir = "removed"

\* The apply has stopped on a file system error and the directory is gone.
C25_Witness ==
    /\ pc = "run:raised"
    /\ ru.outcome = "apply_error"
    /\ ex # <<>>
    /\ ru.temp_dir = "removed"

(***************************************************************************)
(* Helpers of the property of the lineage migration.                       *)
(***************************************************************************)
MigrationInvoked == pc = "run:migrate" \/ ru.migration # "none"

MigrationMessages == {SaidChecking, SaidSchemaOk, SaidNoSurreal, WarnMigration}

\* C26: the lineage migration is invoked only when .spectrena/lineage.db
\* exists and only after apply_update_plan and the write of the version
\* marker have both completed in the same run; never on a dry run, a
\* declined confirmation, an exit at the target version or a failed apply;
\* and when the migration fails, the applied files, the ledger and the
\* version marker stay as apply and save_version left them and the run
\* ends as an update that went through.
C26_MigrationAfterApplyOnly ==
    /\ MigrationInvoked =>
          /\ PathExists(fs, lineage_db_path)
          /\ applies = 1
          /\ get_current_version(fs) = ru.target
          /\ \A p \in Paths \ {lineage_db} :
                fs[p] = save_version(endFs, ru.target)[p]
          /\ ru.temp_dir = "removed"
    /\ (pc \in Ended /\ ru.outcome # "updated") =>
          /\ ru.migration = "none"
          /\ ru.console \cap MigrationMessages = {}
    /\ (pc \in Ended /\ ru.outcome = "updated"
           /\ PathExists(fs, lineage_db_path)) => ru.migration # "none"
    /\ ru.migration = "failed" =>
          /\ pc = "run:returned"
          /\ ru.outcome = "updated"
          /\ {WarnMigration, SaidUpdated} \subseteq ru.console

\* The migration failed half way through the store after an update that
\* copied files and wrote the ledger.
C26_Witness ==
    /\ pc = "run:returned"
    /\ ru.migration = "failed"
    /\ fs[lineage_db] = Truncated
    /\ \E i \in 1..Len(plan) : Copies(plan[i])
    /\ fs[HashFile] # ru.start[HashFile]
    /\ fs[VersionFile] # ru.start[VersionFile]

\* The ledger apply_update_plan has just written.
LedgerNow == fs[HashFile][2]

\* C27 as stated: right after a completed apply_update_plan, every path the
\* ledger records exists locally and its digest is the recorded one.
C27_LedgerMatchesDisk ==
    pc = "applied" =>
        \A p \in DOMAIN LedgerNow :
            Exists(fs, p) /\ file_hash(fs, p) = LedgerNow[p]

\* C27 amended: the same for every recorded path but the ledger file and
\* the reconciliation document, which apply_update_plan writes itself after
\* the copies.
C27_LedgerMatchesDiskButEngineFiles ==
    pc = "applied" =>
        \A p \in DOMAIN LedgerNow \ {HashFile, PendingFile} :
            Exists(fs, p) /\ file_hash(fs, p) = LedgerNow[p]

\* The apply has replaced a file the user had changed after the plan was
\* built and has recorded its digest, and has left a MERGE file unrecorded.
C27_Witness ==
    /\ pc = "applied"
    /\ \E p \in DOMAIN LedgerNow \ {HashFile, PendingFile} :
          /\ pre[p] # planFs[p]
          /\ pre[p] # fs[p]
          /\ file_hash(fs, p) = LedgerNow[p]
    /\ \E i \in 1..Len(plan) :
          plan[i].action = MERGE /\ plan[i].path \notin DOMAIN LedgerNow

(***************************************************************************)
(* Helpers of the properties of a second run.                              *)
(***************************************************************************)
\* The first run planned and applied with no change of the project in
\* between, and so did the second, which started from what the first left.
TwoRunsNoEdit ==
    /\ pc = "applied"
    /\ run = 2
    /\ prev.outcome = "applied"
    /\ \E ord \in ScanOrders :
          prev.fs = apply_update_plan(
                        create_update_plan(prev.planFs, tpl, ord),
                        prev.planFs, tpl)
    /\ planFs = prev.fs
    /\ pre = planFs

LedgerOf(tree) == load_original_hashes(tree)

Sections(tree) ==
    IF tree[PendingFile][1] = "md" THEN Range(tree[PendingFile][2]) ELSE {}

\* C28 as stated: a second plan and apply against the same template, with
\* no local edit in between, leaves every project file and the ledger as
\* the first run left them.
C28_SecondRunSame ==
    TwoRunsNoEdit => fs = prev.fs

\* C28 amended: the second run leaves every file but the ledger and the
\* reconciliation document as the first left it; the ledger keeps, with
\* their digests, exactly the entries of the first whose path matches an
\* UPDATE or MERGE pattern; the reconciliation document keeps its sections,
\* in the order of the scan of the second run.
C28_SecondRunKeepsFilesDropsUnknown ==
    TwoRunsNoEdit =>
        /\ \A p \in Paths \ {HashFile, PendingFile} : fs[p] = prev.fs[p]
        /\ DOMAIN LedgerOf(fs) =
              {p \in DOMAIN LedgerOf(prev.fs) :
                  matches_pattern(p, UPDATE_PATTERNS)
                      \/ matches_pattern(p, MERGE_PATTERNS)}
        /\ \A p \in DOMAIN LedgerOf(fs) :
              LedgerOf(fs)[p] = LedgerOf(prev.fs)[p]
        /\ fs[PendingFile][1] = prev.fs[PendingFile][1]
        /\ Sections(fs) = Sections(prev.fs)
        /\ fs[PendingFile][1] = "md" =>
              Len(fs[PendingFile][2]) = Len(prev.fs[PendingFile][2])
        /\ (fs[PendingFile] # prev.fs[PendingFile]) =>
              /\ wrotePending
              /\ fs[PendingFile][2] =
                    [i \in 1..Len(pending_merges(plan)) |->
                        Section(pending_merges(plan)[i], tpl)]

\* The first run added a file no table knows and recorded it; the second
\* preserves it and the ledger has lost its entry, while a framework file
\* is copied again and stays recorded.
C28_Witness ==
    /\ TwoRunsNoEdit
    /\ prev.actions[readme] = ADD
    /\ ActionsOf(plan)[readme] = PRESERVE
    /\ readme \in DOMAIN LedgerOf(prev.fs) \ DOMAIN LedgerOf(fs)
    /\ cmd \in DOMAIN LedgerOf(fs)
    /\ fs[readme] = tpl[readme]

\* C29: a file under a MERGE pattern that an applied run classified MERGE
\* has no ledger entry afterwards, and the next run, if the file exists
\* locally and in the incoming template, classifies it MERGE again and not
\* UPDATE, also when the user has made it byte-identical to the incoming
\* file in between.
C29_MergeIsSticky ==
    (run >= 2 /\ pc \in {"planned", "applied"} /\ prev.outcome = "applied") =>
        \A p \in Paths :
            /\ matches_pattern(p, MERGE_PATTERNS)
            /\ prev.actions[p] = MERGE
            => /\ p \notin DOMAIN load_original_hashes(prev.fs)
               /\ (Exists(planFs, p) /\ Exists(tpl, p)) =>
                     /\ ActionsOf(plan)[p] = MERGE
                     /\ drift[p]

\* The file was deferred by the first run, the user has made it identical
\* to the incoming one, and the second run defers it again.
C29_Witness ==
    /\ run = 2
    /\ pc = "applied"
    /\ prev.outcome = "applied"
    /\ prev.actions[bar] = MERGE
    /\ prev.fs[bar] # tpl[bar]
    /\ planFs[bar] = tpl[bar]
    /\ ActionsOf(plan)[bar] = MERGE
    /\ bar \notin DOMAIN load_original_hashes(fs)

\* C30 as stated: apply_update_plan overwrites a file under a MERGE pattern
\* only if its content, at the time of the overwrite, has the digest the
\* ledger records for it; a file planned UPDATE because it was unmodified
\* and edited between create_update_plan and apply_update_plan is left as
\* the user made it.
C30_EditAfterPlanKept ==
    (pc = "applied" /\ applies = 1) =>
        \A p \in Paths :
            /\ matches_pattern(p, MERGE_PATTERNS)
            /\ Exists(pre, p)
            /\ fs[p] # pre[p]
            => file_hash(pre, p) = Get(load_original_hashes(pre), p)

====
